---- MODULE Spec2Model ----
(***************************************************************************)
(* Model of the POST /api/generate-cards handler of src/server.js: input   *)
(* validation, provider selection, the upstream streaming call, the        *)
(* line-framing loop that turns text fragments into NDJSON lines, the      *)
(* final-buffer flush, the cost log and the catch block.                   *)
(*                                                                         *)
(* Text is a sequence of one-character strings, so that slicing, trimming, *)
(* the two fence regexes and JSON.parse are computed character by          *)
(* character as the JavaScript does.                                       *)
(***************************************************************************)
EXTENDS Integers, Sequences, FiniteSets, TLC

----------------------------------------------------------------------------
(* Characters and text helpers (String.prototype methods used by the code) *)

NL == "\n"

\* White space of String.prototype.trim and of the regex class \s, restricted
\* to the characters a TLA+ string can name.
JsSpace == {" ", "\t", "\n", "\r", "\f"}

\* The character of s at 1-based position i, "" past either end.
At(s, i) == IF i \in 1..Len(s) THEN s[i] ELSE ""

Drop(s, n) == SubSeq(s, n + 1, Len(s))

Take(s, n) == SubSeq(s, 1, IF n < Len(s) THEN n ELSE Len(s))

StartsWith(s, p) == Len(p) <= Len(s) /\ SubSeq(s, 1, Len(p)) = p

EndsWith(s, p) == Len(p) <= Len(s) /\ SubSeq(s, Len(s) - Len(p) + 1, Len(s)) = p

\* The first position from i on whose character is not in set (Len(s) + 1
\* when there is none).
FirstNotIn(s, i, set) ==
    IF i > Len(s) THEN i
    ELSE CHOOSE j \in i..(Len(s) + 1) :
            At(s, j) \notin set /\ \A k \in i..(j - 1) : s[k] \in set

\* The last position whose character is not in set (0 when there is none).
LastNotIn(s, set) ==
    CHOOSE j \in 0..Len(s) :
        At(s, j) \notin set /\ \A k \in (j + 1)..Len(s) : s[k] \in set

TrimStart(s) == Drop(s, FirstNotIn(s, 1, JsSpace) - 1)

TrimEnd(s) == SubSeq(s, 1, LastNotIn(s, JsSpace))

\* String.prototype.trim
Trim(s) == TrimEnd(TrimStart(s))

\* buffer.indexOf('\n'), 1-based; 0 when there is none (JavaScript's -1).
IndexOfNL(s) ==
    LET hits == {i \in 1..Len(s) : s[i] = NL} IN
    IF hits = {} THEN 0 ELSE CHOOSE i \in hits : \A j \in hits : i <= j

----------------------------------------------------------------------------
(* Fence stripping: line.replace(/^```json\s*/, '').replace(/\s*```$/, '') *)

\* The grave accent U+0060, which a TLA+ string cannot hold: it is the one
\* character of the model that is named instead of written.
Backtick == "BACKTICK"

OpenFence == <<Backtick, Backtick, Backtick, "j", "s", "o", "n">>

CloseFence == <<Backtick, Backtick, Backtick>>

\* replace(/^```json\s*/, ''): the tagged fence at the start and the white
\* space after it.
StripOpenFence(s) ==
    IF StartsWith(s, OpenFence) THEN TrimStart(Drop(s, Len(OpenFence))) ELSE s

\* Faulty variant of StripCloseFence: the closing fence is left in place.
StripCloseFenceNever(s) == s

\* replace(/\s*```$/, ''): the fence at the very end and the white space
\* before it (the leftmost match starts at the beginning of that run).
StripCloseFence(s) ==
    IF EndsWith(s, CloseFence) THEN TrimEnd(Take(s, Len(s) - Len(CloseFence))) ELSE s

CleanLine(line) == StripCloseFence(StripOpenFence(line))

----------------------------------------------------------------------------
(* JSON.parse, as a recursive-descent recogniser of the JSON grammar.  A   *)
(* parse result is [ok, next, kind, fields]: next is the position after    *)
(* the value, fields the members of an object as <<key, kind>> pairs in    *)
(* source order (keys are compared as written between the quotes).         *)

JsonSpace == {" ", "\t", "\n", "\r"}

ControlChars == {"\t", "\n", "\r", "\f"}

Digits == {"0", "1", "2", "3", "4", "5", "6", "7", "8", "9"}

HexDigits == Digits \cup {"a", "b", "c", "d", "e", "f", "A", "B", "C", "D", "E", "F"}

SimpleEscapes == {"\"", "\\", "/", "b", "f", "n", "r", "t"}

ParseFail == [ok |-> FALSE, next |-> 0, kind |-> "none", fields |-> <<>>]

ParseOk(n, k, f) == [ok |-> TRUE, next |-> n, kind |-> k, fields |-> f]

SkipWs(s, i) == FirstNotIn(s, i, JsonSpace)

ScanDigits(s, i) == FirstNotIn(s, i, Digits)

\* Inside a string whose first character is at position a: the character
\* at j is escaped when an odd number of backslashes runs up to it.
IsEscaped(s, a, j) ==
    LET run == {k \in a..(j - 1) : \A m \in k..(j - 1) : s[m] = "\\"} IN
    Cardinality(run) % 2 = 1

\* A well-formed escape sequence starts at the backslash at k.
IsEscapeAt(s, k) ==
    \/ At(s, k + 1) \in SimpleEscapes
    \/ At(s, k + 1) = "u" /\ \A m \in 2..5 : At(s, k + m) \in HexDigits

\* From position a, the character after the opening quote, to the position
\* after the closing quote, the first quote that is not escaped; 0 when the
\* string is unterminated, holds a control character or an ill-formed escape.
ScanString(s, a) ==
    LET closing == {j \in a..Len(s) : s[j] = "\"" /\ ~IsEscaped(s, a, j)} IN
    IF closing = {} THEN 0
    ELSE
        LET close == CHOOSE j \in closing : \A k \in closing : j <= k IN
        IF \A k \in a..(close - 1) :
              /\ s[k] \notin ControlChars
              /\ (s[k] = "\\" /\ ~IsEscaped(s, a, k)) => IsEscapeAt(s, k)
        THEN close + 1
        ELSE 0

\* number = -? (0 | [1-9][0-9]*) (. [0-9]+)? ([eE] [+-]? [0-9]+)?
ScanNumber(s, i) ==
    LET a == IF At(s, i) = "-" THEN i + 1 ELSE i
        b == IF At(s, a) = "0" THEN a + 1
             ELSE IF At(s, a) \in Digits THEN ScanDigits(s, a + 1)
             ELSE 0
        c == IF b = 0 THEN 0
             ELSE IF At(s, b) = "."
                  THEN (IF At(s, b + 1) \in Digits THEN ScanDigits(s, b + 1) ELSE 0)
                  ELSE b
        e == IF At(s, c + 1) \in {"+", "-"} THEN c + 2 ELSE c + 1
    IN  IF c = 0 THEN 0
        ELSE IF At(s, c) \in {"e", "E"}
             THEN (IF At(s, e) \in Digits THEN ScanDigits(s, e) ELSE 0)
             ELSE c

LitTrue == <<"t", "r", "u", "e">>

LitFalse == <<"f", "a", "l", "s", "e">>

LitNull == <<"n", "u", "l", "l">>

RECURSIVE ParseValue(_, _)
RECURSIVE ParseMembers(_, _, _)
RECURSIVE ParseElements(_, _)

\* A value starting exactly at position i (white space already skipped).
ParseValue(s, i) ==
    LET c == At(s, i)
        rest == Drop(s, i - 1)
    IN  IF c = "{" THEN
            (IF At(s, SkipWs(s, i + 1)) = "}"
             THEN ParseOk(SkipWs(s, i + 1) + 1, "object", <<>>)
             ELSE ParseMembers(s, SkipWs(s, i + 1), <<>>))
        ELSE IF c = "[" THEN
            (IF At(s, SkipWs(s, i + 1)) = "]"
             THEN ParseOk(SkipWs(s, i + 1) + 1, "array", <<>>)
             ELSE ParseElements(s, SkipWs(s, i + 1)))
        ELSE IF c = "\"" THEN
            (IF ScanString(s, i + 1) = 0 THEN ParseFail
             ELSE ParseOk(ScanString(s, i + 1), "string", <<>>))
        ELSE IF c = "-" \/ c \in Digits THEN
            (IF ScanNumber(s, i) = 0 THEN ParseFail
             ELSE ParseOk(ScanNumber(s, i), "number", <<>>))
        ELSE IF StartsWith(rest, LitTrue) THEN ParseOk(i + 4, "boolean", <<>>)
        ELSE IF StartsWith(rest, LitFalse) THEN ParseOk(i + 5, "boolean", <<>>)
        ELSE IF StartsWith(rest, LitNull) THEN ParseOk(i + 4, "null", <<>>)
        ELSE ParseFail

\* Members of an object from position i (at a key) up to the closing brace.
ParseMembers(s, i, acc) ==
    IF At(s, i) # "\"" \/ ScanString(s, i + 1) = 0 THEN ParseFail
    ELSE
        LET kend == ScanString(s, i + 1)
            key == SubSeq(s, i + 1, kend - 2)
            colon == SkipWs(s, kend)
        IN  IF At(s, colon) # ":" THEN ParseFail
            ELSE
                LET v == ParseValue(s, SkipWs(s, colon + 1)) IN
                IF ~v.ok THEN ParseFail
                ELSE
                    LET m == SkipWs(s, v.next)
                        acc2 == Append(acc, <<key, v.kind>>)
                    IN  IF At(s, m) = "}" THEN ParseOk(m + 1, "object", acc2)
                        ELSE IF At(s, m) = "," THEN ParseMembers(s, SkipWs(s, m + 1), acc2)
                        ELSE ParseFail

\* Elements of an array from position i up to the closing bracket.
ParseElements(s, i) ==
    LET v == ParseValue(s, i) IN
    IF ~v.ok THEN ParseFail
    ELSE
        LET m == SkipWs(s, v.next) IN
        IF At(s, m) = "]" THEN ParseOk(m + 1, "array", <<>>)
        ELSE IF At(s, m) = "," THEN ParseElements(s, SkipWs(s, m + 1))
        ELSE ParseFail

\* JSON.parse(text): succeeds when one value spans the whole text, white
\* space around it allowed; ok = FALSE stands for the SyntaxError thrown.
JsonParse(text) ==
    LET v == ParseValue(text, SkipWs(text, 1)) IN
    IF v.ok /\ SkipWs(text, v.next) = Len(text) + 1 THEN v ELSE ParseFail

\* The kind of member key of a parsed object ("absent" when it has none):
\* the last occurrence wins, as in JavaScript.
FieldKind(fields, key) ==
    IF \E i \in 1..Len(fields) : fields[i][1] = key
    THEN fields[CHOOSE i \in 1..Len(fields) :
                    /\ fields[i][1] = key
                    /\ \A j \in (i + 1)..Len(fields) : fields[j][1] # key][2]
    ELSE "absent"

----------------------------------------------------------------------------
(* Inputs *)

\* The longest text drawn character by character from ShortAlphabet.
MaxLen == 3

ShortAlphabet == {"{", "}", NL, " "}

ShortTexts == UNION {[1..n -> ShortAlphabet] : n \in 0..MaxLen}

\* {"front":"Q","back":"A","code":""}
Card1 ==
    <<"{", "\"", "f", "r", "o", "n", "t", "\"", ":", "\"", "Q", "\"", ",",
      "\"", "b", "a", "c", "k", "\"", ":", "\"", "A", "\"", ",",
      "\"", "c", "o", "d", "e", "\"", ":", "\"", "\"", "}">>

\* {"front":"R","back":"B","code":""}
Card2 ==
    <<"{", "\"", "f", "r", "o", "n", "t", "\"", ":", "\"", "R", "\"", ",",
      "\"", "b", "a", "c", "k", "\"", ":", "\"", "B", "\"", ",",
      "\"", "c", "o", "d", "e", "\"", ":", "\"", "\"", "}">>

Cards == {Card1, Card2}

\* {"a":1}
NoShape == <<"{", "\"", "a", "\"", ":", "1", "}">>

\* {"a":1   (starts with a brace, does not parse)
Broken == <<"{", "\"", "a", "\"", ":", "1">>

NotJson == <<"n", "o", "t", " ", "j", "s", "o", "n">>

\* Two record lines.
TwoCards == Card1 \o <<NL>> \o Card2 \o <<NL>>

\* A malformed line between two valid lines.
BadBetween == Card1 \o <<NL>> \o NotJson \o <<NL>> \o Card2 \o <<NL>>

\* A fenced block: opening fence line, record line, closing fence line.
FencedBlock ==
    <<" ">> \o OpenFence \o <<NL>> \o Card1 \o <<NL>> \o CloseFence \o <<" ", NL>>

\* The opening fence on the record's own line.
FencedOpen == OpenFence \o <<" ">> \o Card1 \o <<NL>>

\* The closing fence on the record's own line, which is not terminated.
FencedClose == Card2 \o <<" ">> \o CloseFence

\* Both fences on the record's own line.
FencedBoth == OpenFence \o Card1 \o CloseFence \o <<NL>>

\* An unparseable brace line, an object without the card fields, and a valid
\* unterminated remainder.
Mixed == Broken \o <<NL>> \o NoShape \o <<NL, " ", "{", "}">>

\* The same line twice.
Repeated == <<"{", "}", NL, "{", "}", NL>>

ScenarioTexts ==
    {TwoCards, BadBetween, FencedBlock, FencedOpen, FencedClose, FencedBoth, Mixed,
     Repeated}

\* The texts an upstream call may deliver in total.
Texts == ShortTexts \cup ScenarioTexts

\* The texts of the runs that vary the configuration.
FewTexts == {<<>>, NoShape \o <<NL>>, <<"{", "}", NL, "}", NL, "{", "}">>}

\* Values of process.env.AI_PROVIDER ("" when unset).
ProviderSettings == {"", "gemini", "openai", "other"}

\* req.body.topic: absent (undefined), the empty string, or a topic.
TopicInputs == {"absent", "empty", "closures"}

NoUsage == [inputTokens |-> -1, outputTokens |-> -1]

\* What a chunk may carry as usage metadata (NoUsage: none).
UsageReports == {NoUsage, [inputTokens |-> 12, outputTokens |-> 34]}

----------------------------------------------------------------------------
(* State *)

VARIABLES
    env,    \* process.env: AI_PROVIDER and whether each API key is non-empty
    req,    \* per request: the handler's locals, its response and its log
    menu,   \* the texts an upstream call may deliver (fixed by Init)
    alone   \* per request: the same handler run on the same inputs of that
            \* request in a store no other request touches, i.e. the request
            \* as it runs alone (read by no action)

vars == <<env, req, menu, alone>>

\* The requests in flight.
Reqs == DOMAIN req

\* A request as app.post's callback receives it.  pc is the handler's
\* position: "received" (not yet run), "opening" (awaiting the upstream
\* call), "streaming" (awaiting the next chunk in the for-await loop), "done".
\* consumed, candNo, upstreamCalls, upstreamFailed and trace record what
\* happened and are read by no action; trace lists, in program order, the
\* calls on res ("write", "json400", "json500", "end") and the outcome of
\* the cost block ("cost", "costwarn").
NewRequest(t) ==
    [pc |-> "received",
     topic |-> t,
     provider |-> "none",
     adapter |-> "none",
     upstream |-> <<>>,
     providerUsage |-> [inputTokens |-> 0, outputTokens |-> 0],
     buffer |-> <<>>,
     firstChunkReceived |-> FALSE,
     cardCount |-> 0,
     statusCode |-> 200,
     headersSent |-> FALSE,
     jsonBody |-> "none",
     ended |-> FALSE,
     written |-> <<>>,
     warnings |-> <<>>,
     costLog |-> "none",
     consumed |-> <<>>,
     candNo |-> 0,
     upstreamCalls |-> 0,
     upstreamFailed |-> FALSE,
     trace |-> <<>>]

\* The length of the offending text quoted in a warning.
WarnPrefixLen == 50

----------------------------------------------------------------------------
(* The line-framing parser *)

\* Faulty variant of ResWrite: res.write(cleanedLine), the newline left out.
ResWriteNoNewline(st, cleaned) ==
    [st EXCEPT !.written = Append(@, [text |-> cleaned, cand |-> st.candNo]),
               !.headersSent = TRUE,
               !.trace = Append(@, "write")]

\* Faulty variant of ResWrite: the line goes in front of the earlier ones.
ResWriteInFront(st, cleaned) ==
    [st EXCEPT !.written = <<[text |-> cleaned \o <<NL>>, cand |-> st.candNo]>> \o @,
               !.headersSent = TRUE,
               !.trace = Append(@, "write")]

\* Faulty variant of ResWrite: the write leaves res.headersSent false.
ResWriteHeadersUnsent(st, cleaned) ==
    [st EXCEPT !.written = Append(@, [text |-> cleaned \o <<NL>>, cand |-> st.candNo]),
               !.trace = Append(@, "write")]

\* res.write(cleanedLine + "\n"): the first write also sends the headers.
ResWrite(st, cleaned) ==
    [st EXCEPT !.written = Append(@, [text |-> cleaned \o <<NL>>, cand |-> st.candNo]),
               !.headersSent = TRUE,
               !.trace = Append(@, "write")]

\* logger.warn(... + text.substring(0, 50))
LogWarn(st, text) == [st EXCEPT !.warnings = Append(@, Take(text, WarnPrefixLen))]

\* Faulty variant of ProcessLine: JSON.parse is left out.
ProcessLineNoParse(st, line, shown) ==
    IF StartsWith(CleanLine(line), <<"{">>)
    THEN ResWrite([st EXCEPT !.cardCount = @ + 1], CleanLine(line))
    ELSE st

\* Faulty variant of ProcessLine: no try/catch, so that the SyntaxError of
\* JSON.parse reaches the handler's catch block.
ProcessLineThrows(st, line, shown) ==
    IF StartsWith(CleanLine(line), <<"{">>)
    THEN IF JsonParse(CleanLine(line)).ok
         THEN ResWrite([st EXCEPT !.cardCount = @ + 1], CleanLine(line))
         ELSE IF st.headersSent
              THEN [st EXCEPT !.ended = TRUE, !.pc = "done",
                              !.trace = Append(@, "end")]
              ELSE [st EXCEPT !.statusCode = 500, !.headersSent = TRUE,
                              !.jsonBody = "Failed to generate flashcards",
                              !.ended = TRUE, !.pc = "done",
                              !.trace = Append(@, "json500")]
    ELSE st

\* The try block run on a non-empty trimmed candidate: strip the fences,
\* and if the result starts with a brace parse it; write it when it parses,
\* warn (quoting shown) when JSON.parse throws, and do nothing otherwise.
ProcessLine(st, line, shown) ==
    LET cleanedLine == CleanLine(line) IN
    IF StartsWith(cleanedLine, <<"{">>)
    THEN IF JsonParse(cleanedLine).ok
         THEN ResWrite([st EXCEPT !.cardCount = @ + 1], cleanedLine)
         ELSE LogWarn(st, shown)
    ELSE st

\* while ((newlineIndex = buffer.indexOf('\n')) !== -1) { ... }
RECURSIVE DrainLines(_)
DrainLines(st) ==
    LET newlineIndex == IndexOfNL(st.buffer) IN
    IF newlineIndex = 0 THEN st
    ELSE
        LET line == Trim(SubSeq(st.buffer, 1, newlineIndex - 1))
            st1 == [st EXCEPT !.buffer = Drop(@, newlineIndex), !.candNo = @ + 1]
        IN  DrainLines(IF line # <<>> THEN ProcessLine(st1, line, line) ELSE st1)

\* Faulty variant of OnFragment: buffer = content instead of buffer += content.
OnFragmentNoCarry(st, content) ==
    DrainLines([st EXCEPT !.firstChunkReceived = TRUE, !.buffer = content])

\* Faulty variant of OnFragment: the fragment is only accumulated, the scan
\* for newlines is left out.
OnFragmentNoScan(st, content) ==
    [st EXCEPT !.firstChunkReceived = TRUE, !.buffer = @ \o content]

\* The body of the for-await loop for one yielded fragment.
OnFragment(st, content) ==
    DrainLines([st EXCEPT !.firstChunkReceived = TRUE, !.buffer = @ \o content])

\* Faulty variant of FlushFinal: the remaining buffer is forgotten.
FlushFinalForgotten(st) == st

\* "Handle any remaining buffer", after the loop.
FlushFinal(st) ==
    IF Trim(st.buffer) # <<>>
    THEN ProcessLine([st EXCEPT !.candNo = @ + 1], Trim(st.buffer), st.buffer)
    ELSE st

----------------------------------------------------------------------------
(* The request handler *)

\* return res.status(400).json({ error: 'Topic is required' })
Respond400(st) ==
    [st EXCEPT !.statusCode = 400, !.jsonBody = "Topic is required",
               !.headersSent = TRUE, !.ended = TRUE, !.pc = "done",
               !.trace = Append(@, "json400")]

\* Faulty variant of Catch: the 500 JSON body is sent without looking at
\* res.headersSent.
CatchAlwaysJson(st) ==
    [st EXCEPT !.statusCode = 500, !.jsonBody = "Failed to generate flashcards",
               !.headersSent = TRUE, !.ended = TRUE, !.pc = "done",
               !.trace = Append(@, "json500")]

\* Faulty variant of Catch: while the headers are unsent the upstream call is
\* made again instead of answering 500.
CatchRetry(st) ==
    IF ~st.headersSent
    THEN [st EXCEPT !.upstreamCalls = @ + 1, !.pc = "opening"]
    ELSE [st EXCEPT !.ended = TRUE, !.pc = "done", !.trace = Append(@, "end")]

\* Faulty variant of Catch: the remaining buffer is flushed like after a
\* normal end of the loop before the response is terminated.
CatchFlushes(st) ==
    LET st1 == FlushFinal(st) IN
    IF ~st1.headersSent
    THEN [st1 EXCEPT !.statusCode = 500, !.jsonBody = "Failed to generate flashcards",
                     !.headersSent = TRUE, !.ended = TRUE, !.pc = "done",
                     !.trace = Append(@, "json500")]
    ELSE [st1 EXCEPT !.ended = TRUE, !.pc = "done", !.trace = Append(@, "end")]

\* Faulty variant of Catch: with the headers sent the error is only logged
\* and res.end() is left out.
CatchNeverEnds(st) ==
    IF ~st.headersSent
    THEN [st EXCEPT !.statusCode = 500, !.jsonBody = "Failed to generate flashcards",
                    !.headersSent = TRUE, !.ended = TRUE, !.pc = "done",
                    !.trace = Append(@, "json500")]
    ELSE [st EXCEPT !.pc = "done"]

\* catch (error): a 500 JSON body when the headers are unsent, else res.end().
Catch(st) ==
    IF ~st.headersSent
    THEN [st EXCEPT !.statusCode = 500, !.jsonBody = "Failed to generate flashcards",
                    !.headersSent = TRUE, !.ended = TRUE, !.pc = "done",
                    !.trace = Append(@, "json500")]
    ELSE [st EXCEPT !.ended = TRUE, !.pc = "done", !.trace = Append(@, "end")]

\* await model.generateContentStream(...) / await openai.chat.completions.create(...)
OpenCall(st, which) ==
    [st EXCEPT !.adapter = which, !.upstreamCalls = @ + 1, !.pc = "opening"]

\* Faulty variant of TopicMissing: topic === undefined, so that the empty
\* string passes.
TopicMissingOnlyUndefined(st) == st.topic = "absent"

\* if (!topic): undefined and the empty string are both falsy.
TopicMissing(st) == st.topic \in {"absent", "empty"}

\* const provider = process.env.AI_PROVIDER || 'openai'
SelectProvider(e) == IF e.AI_PROVIDER = "" THEN "openai" ELSE e.AI_PROVIDER

\* Faulty variant of HandleRequest: the upstream call is made without
\* looking at the API key of the selected provider.
HandleRequestNoKeyCheck(st, e) ==
    IF TopicMissing(st) THEN Respond400(st)
    ELSE
        LET st1 == [st EXCEPT !.provider = SelectProvider(e)] IN
        OpenCall(st1, IF st1.provider = "gemini" THEN "gemini" ELSE "openai")

\* The handler from its start to its first await: validation, provider
\* selection, the credential check and the upstream call.
HandleRequest(st, e) ==
    IF TopicMissing(st) THEN Respond400(st)
    ELSE
        LET st1 == [st EXCEPT !.provider = SelectProvider(e)] IN
        IF st1.provider = "gemini"
        THEN (IF ~e.GEMINI_API_KEY THEN Catch(st1) ELSE OpenCall(st1, "gemini"))
        ELSE (IF ~e.OPENAI_API_KEY THEN Catch(st1) ELSE OpenCall(st1, "openai"))

\* if (chunk.usageMetadata) ... / if (chunk.usage) ...
UpdateUsage(st, usage) ==
    IF usage = NoUsage THEN st ELSE [st EXCEPT !.providerUsage = usage]

\* One upstream chunk through the adapter and, when the adapter yields, the
\* loop body: the Gemini adapter yields chunk.text() always, the OpenAI
\* adapter only non-empty content.
OnChunk(st, content, usage) ==
    LET st1 == [UpdateUsage(st, usage) EXCEPT !.consumed = @ \o content,
                                              !.upstream = Drop(@, Len(content))]
    IN  IF st.adapter = "gemini" \/ content # <<>> THEN OnFragment(st1, content) ELSE st1

\* Faulty variant of LogCost: the cost is computed without the guard on the
\* token counts.
LogCostUnguarded(st) ==
    [st EXCEPT !.costLog = IF st.provider = "gemini" THEN "gemini rates"
                                                     ELSE "openai rates",
               !.trace = Append(@, "cost")]

\* Faulty variant of LogCost: the rate pair is chosen by reading
\* process.env.AI_PROVIDER again instead of the handler's const provider.
LogCostFromEnv(st) ==
    IF st.providerUsage.inputTokens > 0 \/ st.providerUsage.outputTokens > 0
    THEN [st EXCEPT !.costLog = IF SelectProvider(env) = "gemini" THEN "gemini rates"
                                                                  ELSE "openai rates",
                    !.trace = Append(@, "cost")]
    ELSE [st EXCEPT !.costLog = "warning", !.trace = Append(@, "costwarn")]

\* "Calculate and Log Cost"
LogCost(st) ==
    IF st.providerUsage.inputTokens > 0 \/ st.providerUsage.outputTokens > 0
    THEN [st EXCEPT !.costLog = IF st.provider = "gemini" THEN "gemini rates"
                                                          ELSE "openai rates",
                    !.trace = Append(@, "cost")]
    ELSE [st EXCEPT !.costLog = "warning", !.trace = Append(@, "costwarn")]

\* res.end(): sends the headers when nothing was written.
ResEnd(st) ==
    [st EXCEPT !.headersSent = TRUE, !.ended = TRUE, !.trace = Append(@, "end")]

\* Faulty variant of OnExhausted: the cost block runs before res.end().
OnExhaustedCostFirst(st) == [ResEnd(LogCost(FlushFinal(st))) EXCEPT !.pc = "done"]

\* After the loop: flush the remaining buffer, end the response, log the cost.
OnExhausted(st) == [LogCost(ResEnd(FlushFinal(st))) EXCEPT !.pc = "done"]

----------------------------------------------------------------------------
(* Actions *)

\* Express calls the handler, which runs to its first await or to a response.
Receive(r) ==
    /\ req[r].pc = "received"
    /\ req' = [req EXCEPT ![r] = HandleRequest(@, env)]
    /\ alone' = [alone EXCEPT ![r] = HandleRequest(@, env)]
    /\ UNCHANGED <<env, menu>>

\* The upstream call resolves with a stream that will deliver text; the
\* handler builds the iterator and asks it for the first fragment.
OpenResolve(r) ==
    /\ req[r].pc = "opening"
    /\ \E text \in menu :
          /\ req' = [req EXCEPT ![r] = [@ EXCEPT !.upstream = text, !.pc = "streaming"]]
          /\ alone' = [alone EXCEPT ![r] = [@ EXCEPT !.upstream = text, !.pc = "streaming"]]
    /\ UNCHANGED <<env, menu>>

\* The upstream call rejects.
OpenReject(r) ==
    /\ req[r].pc = "opening"
    /\ req' = [req EXCEPT ![r] = Catch([@ EXCEPT !.upstreamFailed = TRUE])]
    /\ alone' = [alone EXCEPT ![r] = Catch([@ EXCEPT !.upstreamFailed = TRUE])]
    /\ UNCHANGED <<env, menu>>

\* Faulty variant of Chunk: buffer is one module-level variable, so that the
\* fragment of one request is also appended to the buffer of every other.
ChunkSharedBuffer(r) ==
    /\ req[r].pc = "streaming"
    /\ \E n \in 0..Len(req[r].upstream), usage \in UsageReports :
          LET content == Take(req[r].upstream, n) IN
          /\ req' = [q \in Reqs |->
                        IF q = r THEN OnChunk(req[q], content, usage)
                        ELSE [req[q] EXCEPT !.buffer = @ \o content]]
          /\ alone' = [alone EXCEPT ![r] = OnChunk(@, content, usage)]
    /\ UNCHANGED <<env, menu>>

\* The stream delivers a chunk: any prefix of the text still to come, the
\* empty one included, with or without usage metadata.
Chunk(r) ==
    /\ req[r].pc = "streaming"
    /\ \E n \in 0..Len(req[r].upstream), usage \in UsageReports :
          /\ req' = [req EXCEPT ![r] = OnChunk(@, Take(req[r].upstream, n), usage)]
          /\ alone' = [alone EXCEPT ![r] = OnChunk(@, Take(req[r].upstream, n), usage)]
    /\ UNCHANGED <<env, menu>>

\* The stream is exhausted.
Exhausted(r) ==
    /\ req[r].pc = "streaming"
    /\ req[r].upstream = <<>>
    /\ req' = [req EXCEPT ![r] = OnExhausted(@)]
    /\ alone' = [alone EXCEPT ![r] = OnExhausted(@)]
    /\ UNCHANGED <<env, menu>>

\* The stream raises while the handler awaits the next chunk.
StreamError(r) ==
    /\ req[r].pc = "streaming"
    /\ req' = [req EXCEPT ![r] = Catch([@ EXCEPT !.upstreamFailed = TRUE])]
    /\ alone' = [alone EXCEPT ![r] = Catch([@ EXCEPT !.upstreamFailed = TRUE])]
    /\ UNCHANGED <<env, menu>>

\* The configuration value changes while requests are in flight.
SetProvider ==
    /\ \E r \in Reqs : req[r].pc # "done"
    /\ \E v \in ProviderSettings \ {env.AI_PROVIDER} :
          env' = [env EXCEPT !.AI_PROVIDER = v]
    /\ UNCHANGED <<req, menu, alone>>

Environments ==
    [AI_PROVIDER : ProviderSettings, GEMINI_API_KEY : BOOLEAN, OPENAI_API_KEY : BOOLEAN]

\* Both keys set, the provider unset (OpenAI) or Gemini.
NominalEnvironments ==
    {e \in Environments :
        e.AI_PROVIDER \in {"", "gemini"} /\ e.GEMINI_API_KEY /\ e.OPENAI_API_KEY}

Requests == [{1} -> {NewRequest(t) : t \in TopicInputs}]

\* One request under a nominal configuration; the upstream may deliver any
\* text of Texts in any fragmentation.
Init ==
    /\ env \in NominalEnvironments
    /\ req \in Requests
    /\ menu = Texts
    /\ alone = req

Next ==
    \/ \E r \in Reqs : Receive(r)
    \/ \E r \in Reqs : OpenResolve(r)
    \/ \E r \in Reqs : OpenReject(r)
    \/ \E r \in Reqs : Chunk(r)
    \/ \E r \in Reqs : Exhausted(r)
    \/ \E r \in Reqs : StreamError(r)

Spec == Init /\ [][Next]_vars

\* One request under every configuration, which may change in flight; the
\* upstream delivers one of a few texts.
InitEnv ==
    /\ env \in Environments
    /\ req \in Requests
    /\ menu = FewTexts
    /\ alone = req

NextEnv == Next \/ SetProvider

SpecEnv == InitEnv /\ [][NextEnv]_vars

\* Two requests in flight at once.
RequestsTwo == [{1, 2} -> {NewRequest(t) : t \in TopicInputs}]

\* Two concurrent requests under a nominal configuration, their steps
\* interleaved in every way; each upstream delivers one of a few texts.
InitTwo ==
    /\ env \in NominalEnvironments
    /\ req \in RequestsTwo
    /\ menu = FewTexts
    /\ alone = req

SpecTwo == InitTwo /\ [][Next]_vars

\* The request of the one-request specifications.
TheRequest == 1

\* The event loop runs the handler of a request that was received; an
\* upstream that is finite or raises settles its call, and its stream keeps
\* going (it raises, delivers a chunk or ends) for as long as the handler
\* awaits it.
Fairness ==
    /\ WF_vars(Receive(TheRequest))
    /\ WF_vars(OpenReject(TheRequest) \/ OpenResolve(TheRequest))
    /\ WF_vars(StreamError(TheRequest) \/ Chunk(TheRequest) \/ Exhausted(TheRequest))

\* One request under every configuration, with an upstream that is finite
\* or raises.
SpecLive == InitEnv /\ [][Next]_vars /\ Fairness

----------------------------------------------------------------------------
(* Vocabulary of the properties: the candidate lines of a text, defined    *)
(* from the positions of its newlines and not by the loop above.           *)

NLPositions(t) == {i \in 1..Len(t) : t[i] = NL}

NumNL(t) == Cardinality(NLPositions(t))

\* The position of the k-th newline of t; 0 for k = 0, Len(t) + 1 past the last.
NthNL(t, k) ==
    IF k = 0 THEN 0
    ELSE IF k > NumNL(t) THEN Len(t) + 1
    ELSE CHOOSE i \in NLPositions(t) : Cardinality({j \in NLPositions(t) : j <= i}) = k

\* The candidate lines of t: the text between consecutive newlines, and the
\* remainder after the last newline as the last one.
Candidates(t) ==
    [k \in 1..(NumNL(t) + 1) |-> SubSeq(t, NthNL(t, k - 1) + 1, NthNL(t, k) - 1)]

\* What is written for a candidate line, when it is written.
Cleaned(c) == CleanLine(Trim(c))

\* A candidate that, trimmed and fence-stripped, starts with a brace and parses.
IsValidCandidate(c) == StartsWith(Cleaned(c), <<"{">>) /\ JsonParse(Cleaned(c)).ok

\* The lines to write for the candidates cs, in their order.
ValidLines(cs) ==
    LET v == SelectSeq(cs, IsValidCandidate) IN
    [i \in 1..Len(v) |-> Cleaned(v[i]) \o <<NL>>]

WrittenTexts(st) == [i \in 1..Len(st.written) |-> st.written[i].text]

\* The request went through the normal completion path: the stream was
\* exhausted and the response ended with its default status.
Completed(st) == st.pc = "done" /\ st.statusCode = 200 /\ ~st.upstreamFailed

\* The candidates the handler has been through: all of them once the stream
\* completed, before that the newline-terminated ones.
Processed(st) ==
    IF Completed(st) THEN Candidates(st.consumed)
    ELSE SubSeq(Candidates(st.consumed), 1, NumNL(st.consumed))

\* A non-empty candidate that is not written.
IsDiscarded(c) == Trim(c) # <<>> /\ ~IsValidCandidate(c)

----------------------------------------------------------------------------
(* Properties *)

\* C1: when the upstream completes normally, the lines written are exactly
\* the valid candidate lines of the concatenated fragments, cleaned, in
\* order: no valid candidate is dropped and no other candidate is written.
C1_WrittenAreTheValidCandidates ==
    \A r \in Reqs :
        Completed(req[r]) =>
            WrittenTexts(req[r]) = ValidLines(Candidates(req[r].consumed))

\* C1 witness: a completed stream with two written lines, a discarded
\* candidate and a valid unterminated remainder among its candidates.
C1_Witness ==
    \E r \in Reqs :
        /\ Completed(req[r])
        /\ Len(req[r].written) = 2
        /\ \E k \in DOMAIN Candidates(req[r].consumed) :
              IsDiscarded(Candidates(req[r].consumed)[k])
        /\ IsValidCandidate(
              Candidates(req[r].consumed)[NumNL(req[r].consumed) + 1])

\* The framing state before the first fragment.
Fresh == NewRequest("closures")

\* The framing state after text has arrived as one single fragment.
AsOneFragment(text) == OnFragment(Fresh, text)

\* C2: framing is fragmentation-agnostic: however the text consumed so far
\* was cut into fragments (the runs cut it in every way: single characters,
\* one fragment, empty fragments in between, inside a record, at a
\* newline), the lines written are, in the same order, those written when
\* it arrives as one fragment.
C2_FragmentationAgnostic ==
    \A r \in Reqs :
        /\ req[r].pc = "streaming" =>
              WrittenTexts(req[r]) = WrittenTexts(AsOneFragment(req[r].consumed))
        /\ Completed(req[r]) =>
              WrittenTexts(req[r])
                  = WrittenTexts(FlushFinal(AsOneFragment(req[r].consumed)))

\* C2 witness: a record is cut by a fragment boundary (its beginning is in
\* the buffer, its end still to come) after a line has been written.
C2_Witness ==
    \E r \in Reqs :
        /\ req[r].pc = "streaming"
        /\ req[r].written # <<>>
        /\ Trim(req[r].buffer) # <<>>
        /\ Trim(req[r].upstream) # <<>>
        /\ IsValidCandidate(Candidates(req[r].buffer \o req[r].upstream)[1])

KeyFront == <<"f", "r", "o", "n", "t">>

KeyBack == <<"b", "a", "c", "k">>

KeyCode == <<"c", "o", "d", "e">>

\* { front: string, back: string, code: string }
IsFlashcardRecord(text) ==
    LET p == JsonParse(text) IN
    /\ p.ok
    /\ p.kind = "object"
    /\ \A key \in {KeyFront, KeyBack, KeyCode} : FieldKind(p.fields, key) = "string"

\* A written text without its last character.
Body(text) == SubSeq(text, 1, Len(text) - 1)

\* C3 as claimed: every line written is a FlashcardRecord, an object with
\* the string fields front, back and code.
C3_Claimed_WrittenAreFlashcards ==
    \A r \in Reqs :
        \A i \in 1..Len(req[r].written) : IsFlashcardRecord(Body(req[r].written[i].text))

\* C3 as amended: every line written starts with a brace and parses as a
\* JSON object; its fields are not checked, and a candidate line {"a":1}
\* the handler has been through is written.
C3_WrittenAreJsonObjects ==
    \A r \in Reqs :
        /\ \A i \in 1..Len(req[r].written) :
              /\ StartsWith(req[r].written[i].text, <<"{">>)
              /\ JsonParse(Body(req[r].written[i].text)).ok
              /\ JsonParse(Body(req[r].written[i].text)).kind = "object"
        /\ \A k \in DOMAIN Processed(req[r]) :
              Processed(req[r])[k] = NoShape =>
                  \E i \in 1..Len(req[r].written) :
                      req[r].written[i].text = NoShape \o <<NL>>

\* C3 witness: the line {"a":1}, which is no FlashcardRecord, is written.
C3_Witness ==
    \E r \in Reqs :
        \E i \in 1..Len(req[r].written) :
            /\ req[r].written[i].text = NoShape \o <<NL>>
            /\ ~IsFlashcardRecord(Body(req[r].written[i].text))

\* The number of non-empty candidates the handler has been through and
\* did not write.
NumDiscarded(st) ==
    Cardinality({k \in DOMAIN Processed(st) : IsDiscarded(Processed(st)[k])})

\* C4 as claimed: every non-empty candidate line that is discarded, because
\* it does not parse or because it does not start with a brace, records
\* exactly one warning; the line "not json" between two records gives two
\* written lines and one warning.
C4_Claimed_OneWarningPerDiscard ==
    \A r \in Reqs : Len(req[r].warnings) = NumDiscarded(req[r])

\* C5: a malformed candidate line never aborts the stream: after a discarded
\* line the handler goes on awaiting fragments, the later valid lines are
\* written, and unless the upstream itself fails the request ends through
\* the normal completion path, with no 500.
C5_MalformedNeverAborts ==
    \A r \in Reqs :
        NumDiscarded(req[r]) > 0 =>
            /\ req[r].pc \in {"streaming", "done"}
            /\ ~req[r].upstreamFailed =>
                  /\ req[r].statusCode = 200
                  /\ req[r].jsonBody = "none"
                  /\ req[r].pc = "done" <=> req[r].ended
                  /\ req[r].pc = "done" => req[r].upstream = <<>>
            /\ WrittenTexts(req[r]) = ValidLines(Processed(req[r]))

\* C5 witness: a stream that completed normally with a written line after
\* a discarded one.
C5_Witness ==
    \E r \in Reqs :
        /\ Completed(req[r])
        /\ req[r].ended
        /\ \E k \in DOMAIN Processed(req[r]) :
              /\ IsDiscarded(Processed(req[r])[k])
              /\ \E i \in 1..Len(req[r].written) : req[r].written[i].cand > k

\* C6: emission is immediate: whenever the handler awaits the next
\* fragment, every valid newline-terminated candidate received so far has
\* been written and only the unterminated remainder is held in the buffer.
C6_EmissionImmediate ==
    \A r \in Reqs :
        req[r].pc = "streaming" =>
            /\ WrittenTexts(req[r])
                  = ValidLines(SubSeq(Candidates(req[r].consumed), 1, NumNL(req[r].consumed)))
            /\ req[r].buffer
                  = Candidates(req[r].consumed)[NumNL(req[r].consumed) + 1]

\* C6 witness: a line is written while the upstream still has text to
\* deliver, a further record included.
C6_Witness ==
    \E r \in Reqs :
        /\ req[r].pc = "streaming"
        /\ Len(req[r].written) = 1
        /\ \E k \in DOMAIN Candidates(req[r].upstream) :
              IsValidCandidate(Candidates(req[r].upstream)[k])

\* C7: each candidate line causes at most one write, and each write is one
\* whole cleaned candidate line followed by one newline, the only newline
\* of the written text.
C7_OneWholeLinePerWrite ==
    \A r \in Reqs :
        \A i \in 1..Len(req[r].written) :
            LET w == req[r].written[i] IN
            /\ w.cand \in DOMAIN Processed(req[r])
            /\ w.text = Cleaned(Processed(req[r])[w.cand]) \o <<NL>>
            /\ NLPositions(w.text) = {Len(w.text)}
            /\ \A j \in 1..Len(req[r].written) :
                  req[r].written[j].cand = w.cand => j = i

\* C7 witness: the same line text arrives as two candidate lines and is
\* written once for each.
C7_Witness ==
    \E r \in Reqs :
        /\ Len(req[r].written) = 2
        /\ req[r].written[1].text = req[r].written[2].text
        /\ req[r].written[1].cand # req[r].written[2].cand

\* C8: the written lines are in the order of their candidate lines in the
\* concatenated input, the unterminated remainder last.
C8_EmissionInArrivalOrder ==
    \A r \in Reqs :
        \A i, j \in 1..Len(req[r].written) :
            i < j =>
                /\ req[r].written[i].cand < req[r].written[j].cand
                /\ req[r].written[i].cand \in DOMAIN Candidates(req[r].consumed)
                /\ req[r].written[j].cand \in DOMAIN Candidates(req[r].consumed)
                /\ Body(req[r].written[i].text)
                      = Cleaned(Candidates(req[r].consumed)[req[r].written[i].cand])
                /\ Body(req[r].written[j].text)
                      = Cleaned(Candidates(req[r].consumed)[req[r].written[j].cand])

\* C8 witness: two different lines written, the second one from the
\* unterminated remainder.
C8_Witness ==
    \E r \in Reqs :
        /\ Completed(req[r])
        /\ Len(req[r].written) = 2
        /\ req[r].written[1].text # req[r].written[2].text
        /\ req[r].written[2].cand = NumNL(req[r].consumed) + 1

\* A record with a fence marker on its own line: the tagged opening fence
\* in front, the closing fence behind, or both, with or without a space.
FencedLines(card) ==
    {open \o card \o close :
        open \in {<<>>, OpenFence, OpenFence \o <<" ">>},
        close \in {<<>>, CloseFence, <<" ">> \o CloseFence}} \ {card}

\* The writes caused by the k-th candidate.
WritesOf(st, k) == {i \in 1..Len(st.written) : st.written[i].cand = k}

\* C9: a line that is only a fence marker is never written, and a record
\* with fence markers attached to its line is written exactly once, as the
\* record alone.
C9_FencesStripped ==
    \A r \in Reqs :
        \A k \in DOMAIN Processed(req[r]) :
            LET line == Trim(Processed(req[r])[k]) IN
            /\ line \in {OpenFence, CloseFence} => WritesOf(req[r], k) = {}
            /\ \A card \in Cards :
                  line \in FencedLines(card) =>
                      /\ Cardinality(WritesOf(req[r], k)) = 1
                      /\ \A i \in WritesOf(req[r], k) :
                            req[r].written[i].text = card \o <<NL>>

\* C9 witness: the fenced block has been through the handler, both fence
\* lines unwritten and the record written once.
C9_Witness ==
    \E r \in Reqs :
        /\ Completed(req[r])
        /\ req[r].consumed = FencedBlock
        /\ WrittenTexts(req[r]) = <<Card1 \o <<NL>>>>
        /\ IsFlashcardRecord(Card1)

\* C9 witness, second case: a record with the closing fence on its line has
\* been written.
C9_WitnessInline ==
    \E r \in Reqs :
        /\ Completed(req[r])
        /\ req[r].consumed = FencedClose
        /\ WrittenTexts(req[r]) = <<Card2 \o <<NL>>>>

\* C10: when topic is absent or empty the request is answered at once with
\* a 400 JSON error: no upstream call is made and nothing is streamed,
\* whatever the provider setting.
C10_MissingTopicRejected ==
    \A r \in Reqs :
        (req[r].topic \in {"absent", "empty"} /\ req[r].pc # "received") =>
            /\ req[r].pc = "done"
            /\ req[r].statusCode = 400
            /\ req[r].jsonBody = "Topic is required"
            /\ req[r].ended
            /\ req[r].upstreamCalls = 0
            /\ req[r].adapter = "none"
            /\ req[r].written = <<>>

\* C10 witness: an empty topic rejected while the provider setting is Gemini.
C10_Witness ==
    \E r \in Reqs :
        /\ req[r].topic = "empty"
        /\ req[r].statusCode = 400
        /\ env.AI_PROVIDER = "gemini"

\* The API key that the provider selected for st requires is absent.
CredentialAbsent(st) ==
    /\ st.provider # "none"
    /\ IF st.provider = "gemini" THEN ~env.GEMINI_API_KEY ELSE ~env.OPENAI_API_KEY

\* C11: when the API key of the selected provider is absent, the request
\* fails before any upstream call is opened, for both providers: the caller
\* gets status 500 with the JSON error body and no streamed line.
C11_AbsentCredentialFailsBeforeCall ==
    \A r \in Reqs :
        CredentialAbsent(req[r]) =>
            /\ req[r].upstreamCalls = 0
            /\ req[r].adapter = "none"
            /\ req[r].pc = "done"
            /\ req[r].statusCode = 500
            /\ req[r].jsonBody = "Failed to generate flashcards"
            /\ req[r].ended
            /\ req[r].written = <<>>
            /\ req[r].trace = <<"json500">>

\* C11 witness: a request that selected Gemini while GEMINI_API_KEY is absent
\* (OPENAI_API_KEY being present) has been answered.
C11_Witness ==
    \E r \in Reqs :
        /\ req[r].provider = "gemini"
        /\ ~env.GEMINI_API_KEY
        /\ env.OPENAI_API_KEY
        /\ req[r].statusCode = 500

\* C11 witness, OpenAI variant: selected by an unset AI_PROVIDER.
C11_WitnessOpenAI ==
    \E r \in Reqs :
        /\ req[r].provider = "openai"
        /\ ~env.OPENAI_API_KEY
        /\ env.GEMINI_API_KEY
        /\ req[r].statusCode = 500

\* C12: when the upstream raises while the handler is streaming, the
\* response is terminated in that step: with the headers already sent it is
\* ended, the lines written stay as they are and no error body is added;
\* with the headers unsent the caller gets status 500 and the JSON error body.
C12_MidStreamFailureTerminates ==
    [][\A r \in Reqs :
          (req[r].pc = "streaming" /\ req'[r].upstreamFailed) =>
              /\ req'[r].pc = "done"
              /\ req'[r].ended
              /\ req'[r].written = req[r].written
              /\ IF req[r].headersSent
                 THEN /\ req'[r].statusCode = 200
                      /\ req'[r].jsonBody = "none"
                      /\ req'[r].trace = Append(req[r].trace, "end")
                 ELSE /\ req'[r].statusCode = 500
                      /\ req'[r].jsonBody = "Failed to generate flashcards"
                      /\ req'[r].trace = Append(req[r].trace, "json500")]_vars

\* C12 witness: the upstream raised after a line had been written, and the
\* response was ended with that line and no error body.
C12_Witness ==
    \E r \in Reqs :
        /\ req[r].upstreamFailed
        /\ req[r].consumed # <<>>
        /\ Len(req[r].written) >= 1
        /\ req[r].ended
        /\ req[r].jsonBody = "none"

\* C13: concurrent requests are independent: under every interleaving of
\* the steps of two requests in flight, the written lines, the buffer, the
\* card counter and the usage summary of each request are those of the same
\* request run alone on its own fragments and usage updates.
C13_RequestsIndependent ==
    \A r \in Reqs :
        /\ req[r].written = alone[r].written
        /\ req[r].buffer = alone[r].buffer
        /\ req[r].cardCount = alone[r].cardCount
        /\ req[r].providerUsage = alone[r].providerUsage

\* C13 witness: two requests are both in the middle of their streams, each
\* with fragments consumed and text still to come, and their written lines,
\* buffers, card counters and usage summaries all differ.
C13_Witness ==
    /\ Reqs = {1, 2}
    /\ \A r \in Reqs :
          /\ req[r].pc = "streaming"
          /\ req[r].consumed # <<>>
          /\ req[r].upstream # <<>>
    /\ req[1].written # req[2].written
    /\ req[1].buffer # req[2].buffer
    /\ req[1].cardCount # req[2].cardCount
    /\ req[1].providerUsage # req[2].providerUsage

\* The handler has run on st, and st passed the validation of its input and
\* the credential check of its provider.
PassedChecks(st) ==
    /\ st.pc # "received"
    /\ st.topic \notin {"absent", "empty"}
    /\ ~CredentialAbsent(st)

\* C14: a request that passed input validation and the credential check has
\* opened exactly one upstream call, whatever happened afterwards (a failure
\* of the call or of the stream included); no other request opened any, and
\* no request ever opens more than one.
C14_ExactlyOneUpstreamCall ==
    \A r \in Reqs :
        /\ req[r].upstreamCalls <= 1
        /\ req[r].upstreamCalls = (IF PassedChecks(req[r]) THEN 1 ELSE 0)

\* C14 witness: the upstream raised in mid-stream, the request is over and it
\* made one call.
C14_Witness ==
    \E r \in Reqs :
        /\ req[r].upstreamFailed
        /\ req[r].consumed # <<>>
        /\ req[r].pc = "done"
        /\ req[r].upstreamCalls = 1

\* The positions in the trace of st at which the cost block ran.
CostRuns(st) == {i \in 1..Len(st.trace) : st.trace[i] \in {"cost", "costwarn"}}

\* The request ended with a validation, configuration or upstream error.
EndedInError(st) == st.pc = "done" /\ (st.statusCode \in {400, 500} \/ st.upstreamFailed)

\* C15: the cost block runs at most once per request, and when it has run it
\* is the last thing that happened: the stream was exhausted, every line was
\* written before it and res.end() came directly before it.  It has not run
\* on a request that ended with a validation, configuration or upstream error.
C15_CostOnceAfterEnd ==
    \A r \in Reqs :
        LET st == req[r]
            n == Len(st.trace)
        IN  /\ Cardinality(CostRuns(st)) <= 1
            /\ CostRuns(st) # {} =>
                   /\ CostRuns(st) = {n}
                   /\ n >= 2
                   /\ st.trace[n - 1] = "end"
                   /\ \A i \in 1..(n - 2) : st.trace[i] = "write"
                   /\ n - 2 = Len(st.written)
                   /\ st.upstream = <<>>
                   /\ st.ended
                   /\ Completed(st)
            /\ EndedInError(st) => CostRuns(st) = {} /\ st.costLog = "none"

\* C15 witness: a completed request wrote two lines, was ended and then had
\* its cost computed.
C15_Witness ==
    \E r \in Reqs :
        /\ Completed(req[r])
        /\ req[r].trace = <<"write", "write", "end", "cost">>

\* C15 witness, error case: an upstream failure after usage had been reported.
C15_WitnessError ==
    \E r \in Reqs :
        /\ req[r].upstreamFailed
        /\ req[r].pc = "done"
        /\ req[r].providerUsage.inputTokens > 0
        /\ req[r].costLog = "none"

\* The upstream call of st was opened and its stream ran to exhaustion.
StreamExhausted(st) == st.pc = "done" /\ st.upstreamCalls = 1 /\ ~st.upstreamFailed

\* No usage metadata was observed: both token counts are still zero.
NoUsageObserved(st) == st.providerUsage = [inputTokens |-> 0, outputTokens |-> 0]

\* C16: when the stream is exhausted and no usage metadata was observed, the
\* request completed successfully all the same: the lines written are those
\* of the text, the response is ended with status 200 and no error body, the
\* warning is logged in place of the cost, and the cost is not computed.
C16_NoUsageStillSucceeds ==
    \A r \in Reqs :
        (StreamExhausted(req[r]) /\ NoUsageObserved(req[r])) =>
            /\ req[r].statusCode = 200
            /\ req[r].jsonBody = "none"
            /\ req[r].ended
            /\ WrittenTexts(req[r]) = ValidLines(Candidates(req[r].consumed))
            /\ req[r].costLog = "warning"
            /\ req[r].trace =
                  [i \in 1..Len(req[r].written) |-> "write"] \o <<"end", "costwarn">>

\* C16 witness: a request completed with a line written and without usage.
C16_Witness ==
    \E r \in Reqs :
        /\ StreamExhausted(req[r])
        /\ NoUsageObserved(req[r])
        /\ Len(req[r].written) >= 1
        /\ req[r].costLog = "warning"

\* The adapter and the rate pair that belong to a value of AI_PROVIDER.
AdapterOf(setting) == IF setting = "gemini" THEN "gemini" ELSE "openai"

RatesOf(adapter) == IF adapter = "gemini" THEN "gemini rates" ELSE "openai rates"

\* C17: the provider is selected once per request from AI_PROVIDER as it is
\* when the handler runs ("gemini" selects Gemini, every other value and the
\* unset one select OpenAI); afterwards neither the provider nor the adapter
\* of the request changes, and the rate pair of the cost estimate is the one
\* of the adapter that was opened, whatever AI_PROVIDER has become meanwhile.
C17_ProviderSelectedOnce ==
    [][\A r \in Reqs :
          /\ (req[r].pc = "received" /\ req'[r].adapter # "none") =>
                 /\ req'[r].adapter = AdapterOf(env.AI_PROVIDER)
                 /\ AdapterOf(req'[r].provider) = req'[r].adapter
          /\ req[r].provider # "none" => req'[r].provider = req[r].provider
          /\ req[r].adapter # "none" => req'[r].adapter = req[r].adapter
          /\ req'[r].costLog \in {"gemini rates", "openai rates"} =>
                 req'[r].costLog = RatesOf(req'[r].adapter)]_vars

\* C17 witness: the cost of a request served by Gemini was computed with the
\* Gemini rates after AI_PROVIDER had been changed to another value.
C17_Witness ==
    \E r \in Reqs :
        /\ req[r].adapter = "gemini"
        /\ req[r].costLog = "gemini rates"
        /\ env.AI_PROVIDER # "gemini"

\* C17 witness, OpenAI variant selected by a value that names no provider.
C17_WitnessOther ==
    \E r \in Reqs :
        /\ req[r].provider = "other"
        /\ req[r].adapter = "openai"
        /\ req[r].costLog = "openai rates"
        /\ env.AI_PROVIDER = "gemini"

\* The newline-terminated candidates of t, and the remainder after them.
Terminated(t) == SubSeq(Candidates(t), 1, NumNL(t))

Remainder(t) == Candidates(t)[NumNL(t) + 1]

\* C18: when the upstream fails, at whatever point of whatever fragment
\* sequence, the lines written are those of the newline-terminated
\* candidates consumed, hence a prefix of the lines written when the same
\* text (what was consumed, then what was still to come) completes normally;
\* the unterminated remainder stays in the buffer and is not written, even
\* when it is a complete valid record.
C18_FailureWritesAPrefix ==
    \A r \in Reqs :
        req[r].upstreamFailed =>
            LET st == req[r]
                W == WrittenTexts(st)
                whole == ValidLines(Candidates(st.consumed \o st.upstream))
            IN  /\ W = ValidLines(Terminated(st.consumed))
                /\ Len(W) <= Len(whole)
                /\ W = SubSeq(whole, 1, Len(W))
                /\ st.buffer = Remainder(st.consumed)
                /\ \A i \in 1..Len(st.written) : st.written[i].cand <= NumNL(st.consumed)
                /\ st.cardCount = Len(W)

\* C18 witness: the upstream failed after all of its text had arrived, with
\* a line written and a complete valid record left unwritten in the buffer.
C18_Witness ==
    \E r \in Reqs :
        /\ req[r].upstreamFailed
        /\ req[r].upstream = <<>>
        /\ Len(req[r].written) = 1
        /\ IsValidCandidate(req[r].buffer)
        /\ Len(ValidLines(Candidates(req[r].consumed))) = 2

\* C18 witness, second case: the failure cut the text before its end.
C18_WitnessCut ==
    \E r \in Reqs :
        /\ req[r].upstreamFailed
        /\ req[r].upstream # <<>>
        /\ Len(req[r].written) = 1
        /\ Len(ValidLines(Candidates(req[r].consumed \o req[r].upstream))) = 2

\* C19: while a request is streaming, its headers have been sent exactly
\* when at least one line has been written; so an upstream failure before
\* the first written line, fragments having arrived or not, is answered with
\* status 500 and the JSON error body, and no response holds both written
\* lines and a JSON error body.
C19_HeadersSentIffLineWritten ==
    \A r \in Reqs :
        /\ req[r].pc = "streaming" => (req[r].headersSent <=> req[r].written # <<>>)
        /\ (req[r].upstreamFailed /\ req[r].written = <<>>) =>
               /\ req[r].statusCode = 500
               /\ req[r].jsonBody = "Failed to generate flashcards"
               /\ req[r].trace = <<"json500">>
        /\ req[r].written # <<>> => req[r].jsonBody = "none" /\ req[r].statusCode = 200

\* C19 witness: the upstream failed after a non-empty fragment had been
\* consumed and before any line was written, and the answer is the 500.
C19_Witness ==
    \E r \in Reqs :
        /\ req[r].upstreamFailed
        /\ req[r].firstChunkReceived
        /\ req[r].consumed # <<>>
        /\ req[r].written = <<>>
        /\ req[r].statusCode = 500

\* The positions in the trace of st at which the response was terminated.
Terminators(st) ==
    {i \in 1..Len(st.trace) : st.trace[i] \in {"json400", "json500", "end"}}

\* The response of st is terminated, by one call, with nothing written to
\* it afterwards and in one of the three ways: the 400 JSON body, the 500
\* JSON body, or the end of the streamed body.
TerminatedOnce(st) ==
    /\ st.ended
    /\ Cardinality(Terminators(st)) = 1
    /\ \A i \in Terminators(st) :
          /\ \A j \in (i + 1)..Len(st.trace) : st.trace[j] \in {"cost", "costwarn"}
          /\ \/ st.trace[i] = "json400" /\ st.statusCode = 400
                   /\ st.jsonBody = "Topic is required" /\ st.written = <<>>
             \/ st.trace[i] = "json500" /\ st.statusCode = 500
                   /\ st.jsonBody = "Failed to generate flashcards" /\ st.written = <<>>
             \/ st.trace[i] = "end" /\ st.statusCode = 200 /\ st.jsonBody = "none"

\* C20: every request whose upstream is finite or raises eventually has its
\* response terminated; a response is terminated at most once, by exactly
\* one of the 400 JSON body, the 500 JSON body or the end of the streamed
\* body, and nothing is written to it afterwards.
C20_EveryResponseTerminatedOnce ==
    /\ [](\A r \in Reqs :
            /\ Cardinality(Terminators(req[r])) <= 1
            /\ (req[r].ended \/ Terminators(req[r]) # {}) => TerminatedOnce(req[r]))
    /\ <>[]TerminatedOnce(req[TheRequest])

\* C20 witness: a streamed body with a line written has been ended after
\* the exhaustion of its stream.
C20_Witness ==
    \E r \in Reqs :
        /\ StreamExhausted(req[r])
        /\ Len(req[r].written) >= 1
        /\ TerminatedOnce(req[r])

\* C20 witness, the other two ways: the 400 and the 500 JSON body.
C20_Witness400 == \E r \in Reqs : TerminatedOnce(req[r]) /\ req[r].statusCode = 400

C20_Witness500 ==
    \E r \in Reqs :
        TerminatedOnce(req[r]) /\ req[r].statusCode = 500 /\ req[r].upstreamFailed

====
